---- MODULE Spec2Model ----
(***************************************************************************)
(* State-machine model of src/src/components/SideScrollerGame.tsx: the     *)
(* key listeners, the focus flag and the per-frame simulation step of the  *)
(* side-scroller view.                                                     *)
(*                                                                         *)
(* Units.  GRAVITY is 0.9, so vertical quantities (playerY, velocityY) are *)
(* held in tenths (YUnit).  The camera target is playerX - width/3, so     *)
(* cameraX is held in thirds of a pixel (XUnit).  playerX is in pixels.    *)
(***************************************************************************)
EXTENDS Integers, Sequences, FiniteSets, TLC

\* ---------------------------------------------------------------- units
YUnit == 10
XUnit == 3

\* ------------------------------------------------------------ constants
GROUND_Y == 72 * YUnit
JUMP_FORCE == (0 - 20) * YUnit
GRAVITY == 9
MOVE_SPEED == 7
WORLD_WIDTH == 8000
FallbackWidth == 800
CullMargin == 100

\* --------------------------------------------------------------- bounds
\* at most MaxDown physical keys are down at the same time
MaxDown == 2
\* the same, where every e.key value is delivered (InputSpec)
MaxDownInput == 1
\* the player is followed for MaxTravel moves around each start position
MaxTravel == 3

Max(a, b) == IF a >= b THEN a ELSE b
Min(a, b) == IF a <= b THEN a ELSE b
Abs(a) == IF a >= 0 THEN a ELSE 0 - a

\* ---------------------------------------------------------------- keys
\* e.key values the environment delivers
AllKeys == {"ArrowLeft", "ArrowRight", "ArrowUp", " ", "a", "d", "w", "A", "x"}
PlayKeys == {"ArrowLeft", "d", " "}
WalkKeys == {"ArrowLeft", "d"}
JumpKeys == {" ", "w"}

\* String.prototype.toLowerCase on the e.key values above
toLowerCase(k) ==
  CASE k = "ArrowLeft" -> "arrowleft"
    [] k = "ArrowRight" -> "arrowright"
    [] k = "ArrowUp" -> "arrowup"
    [] k = "A" -> "a"
    [] OTHER -> k

\* the array literal of handleKeyDown
RecognizedKeys == {"ArrowLeft", "ArrowRight", "ArrowUp", " ", "a", "d", "w"}

\* ------------------------------------------------------------ landmarks
landmarks ==
  { [id |-> "cn-tower", x |-> 800, width |-> 200],
    [id |-> "streetcar", x |-> 1800, width |-> 300],
    [id |-> "city-hall", x |-> 3000, width |-> 400],
    [id |-> "toronto-sign", x |-> 4200, width |-> 350],
    [id |-> "rogers-centre", x |-> 5500, width |-> 450],
    [id |-> "raccoon", x |-> 6800, width |-> 150] }

\* ------------------------------------------------------------- viewport
\* containerRef.current?.offsetWidth: <<>> when the ref is null, else <<n>>
OffsetWidths == {0, 300, 700, 9000}
Measurements == {<<>>} \cup { <<n>> : n \in OffsetWidths }

\* variant: the fallback taken only for a null ref (?? in place of ||)
ContainerWidthOfNullish(m) == IF m = <<>> THEN FallbackWidth ELSE m[1]

\* containerRef.current?.offsetWidth || 800
ContainerWidthOf(m) == IF m = <<>> THEN FallbackWidth
                       ELSE IF m[1] = 0 THEN FallbackWidth ELSE m[1]

VARIABLES
  gameState,       \* the GameState record of useState
  keysPressed,     \* keysPressed.current
  isFocused,       \* the isFocused state
  listeners,       \* registered (keydown, keyup) handler pairs: the isFocused each captured
  physDown,        \* lowercase tokens of the keys physically down
  containerWidth,  \* containerWidth of the last executed step (0: none yet)
  mounted          \* the component is mounted

vars == <<gameState, keysPressed, isFocused, listeners, physDown, containerWidth, mounted>>

\* --------------------------------------------------------------- camera
\* variant: the target a third of the width ahead of the player
CameraTargetAhead(playerX, w) ==
  Max(0, Min(XUnit * (WORLD_WIDTH - w), XUnit * playerX + w))

\* variant: the two clamps applied in the other order
CameraClampSwapped(playerX, w) ==
  Min(XUnit * (WORLD_WIDTH - w), Max(0, XUnit * playerX - w))

\* Math.max(0, Math.min(WORLD_WIDTH - containerWidth, playerX - containerWidth / 3)), in thirds
Camera(playerX, w) ==
  Max(0, Min(XUnit * (WORLD_WIDTH - w), XUnit * playerX - w))

\* ----------------------------------------------------------------- step
HasLeft(keys) == "arrowleft" \in keys \/ "a" \in keys
HasRight(keys) == "arrowright" \in keys \/ "d" \in keys
HasJump(keys) == "arrowup" \in keys \/ "w" \in keys \/ " " \in keys

\* variant: the left move without the lower clamp
MoveLeftNoClamp(h, keys) ==
  IF HasLeft(keys)
  THEN [playerX |-> h.playerX - MOVE_SPEED, facingRight |-> FALSE, isRunning |-> TRUE]
  ELSE h

\* horizontal movement: the two if-blocks, left first
MoveLeft(h, keys) ==
  IF HasLeft(keys)
  THEN [playerX |-> Max(50, h.playerX - MOVE_SPEED), facingRight |-> FALSE, isRunning |-> TRUE]
  ELSE h

\* variant: facingRight assigned outside the if-block of the right move
MoveRightFacesAlways(h, keys) ==
  IF HasRight(keys)
  THEN [playerX |-> Min(WORLD_WIDTH - 50, h.playerX + MOVE_SPEED), facingRight |-> TRUE, isRunning |-> TRUE]
  ELSE [h EXCEPT !.facingRight = TRUE]

\* variant: the right move without the upper clamp
MoveRightNoClamp(h, keys) ==
  IF HasRight(keys)
  THEN [playerX |-> h.playerX + MOVE_SPEED, facingRight |-> TRUE, isRunning |-> TRUE]
  ELSE h

MoveRight(h, keys) ==
  IF HasRight(keys)
  THEN [playerX |-> Min(WORLD_WIDTH - 50, h.playerX + MOVE_SPEED), facingRight |-> TRUE, isRunning |-> TRUE]
  ELSE h

\* variant: the two if-blocks in the other order, right first
HorizontalRightFirst(prev, keys) ==
  MoveLeft(MoveRight([playerX |-> prev.playerX, facingRight |-> prev.facingRight,
                      isRunning |-> FALSE], keys), keys)

\* variant: isRunning carried over from the previous state
HorizontalKeepRunning(prev, keys) ==
  MoveRight(MoveLeft([playerX |-> prev.playerX, facingRight |-> prev.facingRight,
                      isRunning |-> prev.isRunning], keys), keys)

Horizontal(prev, keys) ==
  MoveRight(MoveLeft([playerX |-> prev.playerX, facingRight |-> prev.facingRight,
                      isRunning |-> FALSE], keys), keys)

\* variant: jump initiation without the isJumping guard
JumpStartNoGuard(v, keys) ==
  IF HasJump(keys)
  THEN [v EXCEPT !.velocityY = JUMP_FORCE, !.isJumping = TRUE]
  ELSE v

\* jump initiation
JumpStart(v, keys) ==
  IF HasJump(keys) /\ ~v.isJumping
  THEN [v EXCEPT !.velocityY = JUMP_FORCE, !.isJumping = TRUE]
  ELSE v

\* variant: ground contact that does not snap playerY to GROUND_Y
IntegrateNoSnap(v) ==
  IF v.isJumping
  THEN LET vel == v.velocityY + GRAVITY
           y == v.playerY + vel
       IN IF y >= GROUND_Y
          THEN [playerY |-> y, velocityY |-> 0, isJumping |-> FALSE]
          ELSE [playerY |-> y, velocityY |-> vel, isJumping |-> TRUE]
  ELSE v

\* variant: ground contact that leaves isJumping set
IntegrateNoLanding(v) ==
  IF v.isJumping
  THEN LET vel == v.velocityY + GRAVITY
           y == v.playerY + vel
       IN IF y >= GROUND_Y
          THEN [playerY |-> GROUND_Y, velocityY |-> 0, isJumping |-> TRUE]
          ELSE [playerY |-> y, velocityY |-> vel, isJumping |-> TRUE]
  ELSE v

\* vertical integration and ground contact
Integrate(v) ==
  IF v.isJumping
  THEN LET vel == v.velocityY + GRAVITY
           y == v.playerY + vel
       IN IF y >= GROUND_Y
          THEN [playerY |-> GROUND_Y, velocityY |-> 0, isJumping |-> FALSE]
          ELSE [playerY |-> y, velocityY |-> vel, isJumping |-> TRUE]
  ELSE v

Vertical(prev, keys) ==
  Integrate(JumpStart([playerY |-> prev.playerY, velocityY |-> prev.velocityY,
                       isJumping |-> prev.isJumping], keys))

\* variant: isRunning also set while airborne
StepRunningAirborne(prev, keys, w) ==
  LET h == Horizontal(prev, keys)
      v == Vertical(prev, keys)
  IN [playerX |-> h.playerX, playerY |-> v.playerY, velocityY |-> v.velocityY,
      isJumping |-> v.isJumping, isRunning |-> h.isRunning \/ v.isJumping,
      facingRight |-> h.facingRight, cameraX |-> Camera(h.playerX, w)]

\* variant: the camera derived from the playerX of the previous state
StepStaleCamera(prev, keys, w) ==
  LET h == Horizontal(prev, keys)
      v == Vertical(prev, keys)
  IN [playerX |-> h.playerX, playerY |-> v.playerY, velocityY |-> v.velocityY,
      isJumping |-> v.isJumping, isRunning |-> h.isRunning,
      facingRight |-> h.facingRight, cameraX |-> Camera(prev.playerX, w)]

\* the setGameState updater
Step(prev, keys, w) ==
  LET h == Horizontal(prev, keys)
      v == Vertical(prev, keys)
  IN [playerX |-> h.playerX, playerY |-> v.playerY, velocityY |-> v.velocityY,
      isJumping |-> v.isJumping, isRunning |-> h.isRunning,
      facingRight |-> h.facingRight, cameraX |-> Camera(h.playerX, w)]

\* ------------------------------------------------------------- culling
\* variant: the early return also fires at the two boundary values
RenderedStrict(l, cameraX, w) ==
  LET screenX == XUnit * l.x - cameraX
  IN ~(screenX <= 0 - XUnit * l.width \/ screenX >= XUnit * (w + CullMargin))

\* landmarks.map: the landmark is rendered unless the early return fires
Rendered(l, cameraX, w) ==
  LET screenX == XUnit * l.x - cameraX
  IN ~(screenX < 0 - XUnit * l.width \/ screenX > XUnit * (w + CullMargin))

\* ------------------------------------------------------------ start states
initialState ==
  [playerX |-> 150, playerY |-> GROUND_Y, velocityY |-> 0, isJumping |-> FALSE,
   isRunning |-> FALSE, facingRight |-> TRUE, cameraX |-> 0]

\* positions the walk reaches: 150 - 7k down to 52, the clamp 50, 50 + 7k,
\* 150 + 7k up to 7948, the clamp 7950, 7950 - 7k
ReachableX(x) == x \in 50..(WORLD_WIDTH - 50) /\ x % MOVE_SPEED \in {1, 3, 5}
EdgeStarts == {57, 7943}
StartXs == {150} \cup EdgeStarts

InWindow(x) == \E s \in StartXs : Abs(x - s) <= MaxTravel * MOVE_SPEED

\* a state at rest after walking to x: keys released, one more frame at width w, then blur
RestState(x, right, w) ==
  [initialState EXCEPT !.playerX = x, !.facingRight = right, !.cameraX = Camera(x, w)]

InitCommon ==
  /\ keysPressed = {}
  /\ physDown = {}
  /\ isFocused = FALSE
  /\ listeners = <<FALSE>>
  /\ mounted = TRUE

\* state after construction and the first run of the listener effect
Init0 ==
  /\ InitCommon
  /\ gameState = initialState
  /\ containerWidth = 0

Init ==
  \/ Init0
  \/ /\ InitCommon
     /\ \E x \in EdgeStarts, right \in BOOLEAN, m \in Measurements :
          /\ ReachableX(x)
          /\ gameState = RestState(x, right, ContainerWidthOf(m))
          /\ containerWidth = ContainerWidthOf(m)

\* -------------------------------------------------------------- actions
\* handleKeyDown of one registered handler that captured `focused`
handleKeyDown(focused, keys, k) ==
  IF ~focused THEN keys
  ELSE IF k \in RecognizedKeys THEN keys \cup {toLowerCase(k)} ELSE keys

\* variant: key-up that deletes e.key as delivered
handleKeyUpCaseSensitive(keys, k) == keys \ {k}

handleKeyUp(keys, k) == keys \ {toLowerCase(k)}

RECURSIVE DispatchDown(_, _, _)
DispatchDown(ls, keys, k) ==
  IF ls = <<>> THEN keys
  ELSE DispatchDown(Tail(ls), handleKeyDown(Head(ls), keys, k), k)

RECURSIVE DispatchUp(_, _, _)
DispatchUp(ls, keys, k) ==
  IF ls = <<>> THEN keys
  ELSE DispatchUp(Tail(ls), handleKeyUp(keys, k), k)

\* variant: the effect with empty deps, the first handler pair stays registered
RunListenerEffectStale(ls, focused) == ls

\* variant: a cleanup that removes nothing
CleanupListenersNone(ls) == ls

\* the effect's cleanup: removeEventListener of the pair its run registered
CleanupListeners(ls) == IF ls = <<>> THEN ls ELSE SubSeq(ls, 1, Len(ls) - 1)

\* the effect with deps [isFocused]: cleanup removes the old pair, the body adds a new one
RunListenerEffect(ls, focused) == Append(CleanupListeners(ls), focused)

KeyDown(k) ==
  /\ physDown' = physDown \cup {toLowerCase(k)}
  /\ keysPressed' = DispatchDown(listeners, keysPressed, k)
  /\ UNCHANGED <<gameState, isFocused, listeners, containerWidth, mounted>>

KeyUp(k) ==
  /\ toLowerCase(k) \in physDown
  /\ physDown' = physDown \ {toLowerCase(k)}
  /\ keysPressed' = DispatchUp(listeners, keysPressed, k)
  /\ UNCHANGED <<gameState, isFocused, listeners, containerWidth, mounted>>

\* onFocus: setIsFocused(true), re-render, listener effect re-run
Focus ==
  /\ mounted
  /\ ~isFocused
  /\ isFocused' = TRUE
  /\ listeners' = RunListenerEffect(listeners, TRUE)
  /\ UNCHANGED <<gameState, keysPressed, physDown, containerWidth, mounted>>

\* onBlur: setIsFocused(false), re-render, listener effect re-run
Blur ==
  /\ mounted
  /\ isFocused
  /\ isFocused' = FALSE
  /\ listeners' = RunListenerEffect(listeners, FALSE)
  /\ UNCHANGED <<gameState, keysPressed, physDown, containerWidth, mounted>>

\* variant: the callback without the focus guard
FrameRunsAlways(focused) == TRUE

\* at most n keys are physically down after the step
DownAtMost(n) == Cardinality(physDown') <= n

\* the focus guard of the animation-frame callback
FrameRuns(focused) == focused

\* the useAnimationFrame callback, with the measurement m of the container
Frame(m) ==
  /\ mounted
  /\ IF ~FrameRuns(isFocused)
     THEN UNCHANGED vars
     ELSE /\ gameState' = Step(gameState, keysPressed, ContainerWidthOf(m))
          /\ containerWidth' = ContainerWidthOf(m)
          /\ UNCHANGED <<keysPressed, isFocused, listeners, physDown, mounted>>

\* unmount: the effect cleanups run, removing the listeners and the frame callback
Unmount ==
  /\ mounted
  /\ mounted' = FALSE
  /\ listeners' = CleanupListeners(listeners)
  /\ UNCHANGED <<gameState, keysPressed, isFocused, physDown, containerWidth>>

\* ------------------------------------------------------- specifications
\* Spec: one key of each kind, every measurement, the walk followed inside
\* the windows around the start positions.
KeyDownPlay == \E k \in PlayKeys : KeyDown(k) /\ DownAtMost(MaxDown)
KeyUpPlay == \E k \in PlayKeys : KeyUp(k)
FrameAny == \E m \in Measurements : Frame(m) /\ InWindow(gameState'.playerX)

Next ==
  \/ KeyDownPlay
  \/ KeyUpPlay
  \/ Focus
  \/ Blur
  \/ FrameAny

Spec == Init /\ [][Next]_vars

\* InputSpec: every e.key value, from the state after construction.
KeyDownAny == \E k \in AllKeys : KeyDown(k) /\ DownAtMost(MaxDownInput)
KeyUpAny == \E k \in AllKeys : KeyUp(k)
FrameUnmeasured == \E m \in {<<>>, <<0>>} : Frame(m) /\ InWindow(gameState'.playerX)

NextInput ==
  \/ KeyDownAny
  \/ KeyUpAny
  \/ Focus
  \/ Blur
  \/ FrameUnmeasured

InputSpec == Init0 /\ [][NextInput]_vars

\* WalkSpec: the whole world from the state after construction, walking keys only.
KeyDownWalk == \E k \in WalkKeys : KeyDown(k) /\ DownAtMost(MaxDown)
KeyUpWalk == \E k \in WalkKeys : KeyUp(k)
FrameWalk == Frame(<<>>)

NextWalk ==
  \/ KeyDownWalk
  \/ KeyUpWalk
  \/ Focus
  \/ Blur
  \/ FrameWalk

WalkSpec == Init0 /\ [][NextWalk]_vars

\* LiveSpec: jump keys only, from the state after construction; the
\* animation-frame loop of the host keeps calling the callback.
KeyDownJump == \E k \in JumpKeys : KeyDown(k) /\ DownAtMost(MaxDown)
KeyUpJump == \E k \in JumpKeys : KeyUp(k)
FrameJump == \E m \in Measurements : Frame(m)

NextJump ==
  \/ KeyDownJump
  \/ KeyUpJump
  \/ Focus
  \/ Blur
  \/ FrameJump

LiveSpec == Init0 /\ [][NextJump]_vars /\ WF_vars(FrameJump)

\* MountSpec: the events of LiveSpec and the unmount of the view.
NextMount ==
  \/ KeyDownJump
  \/ KeyUpJump
  \/ Focus
  \/ Blur
  \/ FrameJump
  \/ Unmount

MountSpec == Init0 /\ [][NextMount]_vars

\* ------------------------------------------------------------ properties
\* a focused animation-frame callback with measurement m is the step taken
StepTaken(m) == isFocused /\ Frame(m)

\* C1: in every reachable state 50 <= playerX <= WORLD_WIDTH - 50, whatever
\* keys are held.
C1_PlayerXInBounds ==
  gameState.playerX >= 50 /\ gameState.playerX <= WORLD_WIDTH - 50

C1_Witness ==
  /\ gameState.playerX = WORLD_WIDTH - 50
  /\ gameState.isRunning
  /\ HasRight(keysPressed)

\* C2: after every executed step, 0 <= cameraX <= max(0, WORLD_WIDTH - w)
\* for the width w read in that step.
C2_CameraInBounds ==
  containerWidth # 0 =>
    /\ gameState.cameraX >= 0
    /\ gameState.cameraX <= XUnit * Max(0, WORLD_WIDTH - containerWidth)

C2_Witness ==
  /\ containerWidth > WORLD_WIDTH
  /\ gameState.isRunning
  /\ gameState.playerX > 150
  /\ gameState.cameraX = 0

\* C3: HeldKeys only holds tokens of keys that are physically down, and a
\* key-up removes the key's lowercase token whether or not the view has focus.
C3_NoStuckKey ==
  /\ [](keysPressed \subseteq physDown)
  /\ [][\A k \in AllKeys : KeyUp(k) => toLowerCase(k) \notin keysPressed']_vars

C3_Witness ==
  /\ ~isFocused
  /\ "arrowleft" \in keysPressed
  /\ physDown = {"arrowleft"}

\* C4: a key-down adds the key's lowercase token exactly when the view has
\* focus and the key is one of the seven recognized keys; otherwise, and on a
\* repeated key-down, HeldKeys is unchanged.
C4_ClaimedKeys == {"ArrowLeft", "ArrowRight", "ArrowUp", " ", "a", "d", "w"}

C4_KeyDownEffect ==
  [][\A k \in AllKeys : KeyDown(k) =>
        keysPressed' = IF isFocused /\ k \in C4_ClaimedKeys
                       THEN keysPressed \cup {toLowerCase(k)}
                       ELSE keysPressed]_vars

C4_Witness ==
  /\ isFocused
  /\ keysPressed = {"arrowup"}
  /\ physDown = {"arrowup"}
  /\ gameState.isJumping

\* C5: unfocused animation frames, a blur and a focus leave every field of
\* GameState unchanged.
C5_FrozenWhileUnfocused ==
  [][(~isFocused \/ ~isFocused') => gameState' = gameState]_vars

C5_Witness ==
  /\ ~isFocused
  /\ gameState.isJumping
  /\ gameState.velocityY < 0

\* C6: playerY never exceeds GROUND_Y, decreases strictly in every step that
\* ends rising, and, as long as focused frames keep occurring, every jump
\* comes back to playerY = GROUND_Y, velocityY = 0, isJumping = false.
C6_Landed ==
  ~gameState.isJumping /\ gameState.playerY = GROUND_Y /\ gameState.velocityY = 0

C6_JumpRoundTrip ==
  /\ [](gameState.playerY <= GROUND_Y)
  /\ [][\A m \in Measurements :
          (gameState'.isJumping /\ gameState'.velocityY < 0 /\ StepTaken(m))
            => gameState'.playerY < gameState.playerY]_vars
  /\ ([]<><<FrameJump>>_vars) => (gameState.isJumping ~> C6_Landed)

C6_Witness ==
  /\ gameState.isJumping
  /\ gameState.velocityY > 0
  /\ ~HasJump(keysPressed)

\* C7: a step that starts airborne only applies gravity (or lands), whether or
\* not a jump key is held; JUMP_FORCE is applied only from the ground.
C7_NoDoubleJump ==
  [][/\ (gameState.isJumping /\ gameState' # gameState) =>
          \/ /\ gameState'.isJumping
             /\ gameState'.velocityY = gameState.velocityY + GRAVITY
          \/ /\ ~gameState'.isJumping
             /\ gameState'.velocityY = 0
     /\ (gameState'.velocityY = JUMP_FORCE + GRAVITY /\ gameState' # gameState) =>
          ~gameState.isJumping]_vars

C7_Witness ==
  /\ gameState.isJumping
  /\ HasJump(keysPressed)
  /\ gameState.velocityY > JUMP_FORCE + GRAVITY

\* C8 as stated: a grounded step with no key held, at the width of the
\* previous step, returns the previous state in every field.
C8_Original ==
  [][\A m \in Measurements :
       (/\ keysPressed = {}
        /\ ~gameState.isJumping
        /\ containerWidth \in {0, ContainerWidthOf(m)}
        /\ StepTaken(m))
         => gameState' = gameState]_vars

\* C8 amended: a grounded step with no key held leaves playerX, playerY,
\* velocityY, isJumping and facingRight unchanged, clears isRunning and sets
\* cameraX to the clamped target; repeating it at that width changes nothing.
C8_IdleStep ==
  [][\A m \in Measurements :
       (keysPressed = {} /\ ~gameState.isJumping /\ StepTaken(m)) =>
         /\ gameState' = [gameState EXCEPT !.isRunning = FALSE,
                            !.cameraX = gameState'.cameraX]
         /\ gameState'.cameraX =
              Max(0, Min(XUnit * (WORLD_WIDTH - ContainerWidthOf(m)),
                         XUnit * gameState.playerX - ContainerWidthOf(m)))
         /\ Step(gameState', {}, ContainerWidthOf(m)) = gameState']_vars

C8_Witness ==
  /\ isFocused
  /\ keysPressed = {}
  /\ ~gameState.isJumping
  /\ ~gameState.facingRight
  /\ containerWidth = 300
  /\ gameState.cameraX > 0

\* widths the render can read
RenderWidths == { ContainerWidthOf(m) : m \in Measurements }

\* C9 as stated: a landmark is rendered iff -width < screenX < width of the
\* viewport + 100, so it is skipped at both boundary values.
C9_Original ==
  \A l \in landmarks, w \in RenderWidths :
    Rendered(l, gameState.cameraX, w) <=>
      /\ XUnit * l.x - gameState.cameraX > 0 - XUnit * l.width
      /\ XUnit * l.x - gameState.cameraX < XUnit * (w + 100)

\* C9 amended: a landmark is rendered iff -width <= screenX <= width of the
\* viewport + 100, so it is still rendered at both boundary values.
C9_Culling ==
  \A l \in landmarks, w \in RenderWidths :
    Rendered(l, gameState.cameraX, w) <=>
      /\ XUnit * l.x - gameState.cameraX >= 0 - XUnit * l.width
      /\ XUnit * l.x - gameState.cameraX <= XUnit * (w + 100)

C9_Witness ==
  /\ containerWidth = 700
  /\ gameState.isRunning
  /\ \E l \in landmarks :
       XUnit * l.x - gameState.cameraX = XUnit * (containerWidth + 100)

\* background layers: multiplier num/den, width 500% of the viewport
layers ==
  { [name |-> "sky", num |-> 1, den |-> 20],
    [name |-> "far-city", num |-> 1, den |-> 5],
    [name |-> "mid-urban", num |-> 1, den |-> 2],
    [name |-> "ground", num |-> 1, den |-> 1] }

\* C10: every layer still covers the viewport: cameraX * m + w <= 5 * w for
\* the viewport width w of the step that produced cameraX.
C10_LayersCover ==
  containerWidth # 0 =>
    \A layer \in layers :
      gameState.cameraX * layer.num + XUnit * layer.den * containerWidth
        <= XUnit * layer.den * 5 * containerWidth

\* C11: one focused step with only a right key held maps playerX to
\* min(WORLD_WIDTH - 50, playerX + MOVE_SPEED) facing right and running; with
\* only a left key held to max(50, playerX - MOVE_SPEED) facing left and running.
C11_OneSidedMove ==
  [][/\ (HasRight(keysPressed) /\ ~HasLeft(keysPressed) /\ gameState' # gameState) =>
          /\ gameState'.playerX =
               IF gameState.playerX + 7 <= 8000 - 50
               THEN gameState.playerX + 7 ELSE 8000 - 50
          /\ gameState'.facingRight
          /\ gameState'.isRunning
     /\ (HasLeft(keysPressed) /\ ~HasRight(keysPressed) /\ gameState' # gameState) =>
          /\ gameState'.playerX =
               IF gameState.playerX - 7 >= 50
               THEN gameState.playerX - 7 ELSE 50
          /\ gameState'.playerX >= 50
          /\ ~gameState'.facingRight
          /\ gameState'.isRunning]_vars

C11_Witness ==
  /\ gameState.playerX = 50
  /\ ~gameState.facingRight
  /\ gameState.isRunning
  /\ HasLeft(keysPressed)
  /\ ~HasRight(keysPressed)

\* C12: with a left and a right key both held, the left move is applied first
\* and the right move second: the step ends facing right and running, and
\* playerX after the step is never smaller than before.
C12_BothHeld ==
  [][(HasLeft(keysPressed) /\ HasRight(keysPressed) /\ gameState' # gameState) =>
       /\ gameState'.facingRight
       /\ gameState'.isRunning
       /\ gameState'.playerX >= gameState.playerX
       /\ gameState'.playerX =
            (IF gameState.playerX - 7 >= 50 THEN gameState.playerX - 7 ELSE 50) + 7]_vars

C12_Witness ==
  /\ gameState.playerX = 57
  /\ gameState.facingRight
  /\ gameState.isRunning
  /\ HasLeft(keysPressed)
  /\ HasRight(keysPressed)
  /\ containerWidth # 0

\* clamp(t, lo, hi) as the claims use it
C13_Clamp(t, lo, hi) == IF t < lo THEN lo ELSE IF t > hi THEN hi ELSE t

\* C13: after every executed step cameraX is clamp(playerX - w/3, 0,
\* max(0, WORLD_WIDTH - w)) of the playerX of that step, whatever cameraX was
\* before; where the clamp is inactive the player is w/3 from the left edge.
C13_CameraSnaps ==
  containerWidth # 0 =>
    LET target == XUnit * gameState.playerX - containerWidth
        hi == IF WORLD_WIDTH - containerWidth > 0
              THEN XUnit * (WORLD_WIDTH - containerWidth) ELSE 0
    IN /\ gameState.cameraX = C13_Clamp(target, 0, hi)
       /\ (target > 0 /\ target < hi) =>
            XUnit * gameState.playerX - gameState.cameraX = containerWidth

C13_Witness ==
  /\ containerWidth = 300
  /\ gameState.isRunning
  /\ gameState.cameraX > 0
  /\ gameState.cameraX = XUnit * gameState.playerX - containerWidth

\* measurements that give no usable width: null ref, or offsetWidth 0
C14_Unmeasured == {<<>>, <<0>>}

\* C14: a step whose width cannot be measured uses the width 800, completes,
\* and returns a numeric cameraX with playerX and cameraX inside their bounds.
C14_FallbackStep ==
  [][\A m \in C14_Unmeasured :
       ((gameState' # gameState \/ containerWidth' # containerWidth)
          /\ StepTaken(m)) =>
         /\ containerWidth' = 800
         /\ gameState'.cameraX \in Int
         /\ gameState'.cameraX >= 0
         /\ gameState'.cameraX <= XUnit * (WORLD_WIDTH - 800)
         /\ gameState'.cameraX \in {0, XUnit * (WORLD_WIDTH - 800),
                                    XUnit * gameState'.playerX - 800}
         /\ gameState'.playerX >= 50
         /\ gameState'.playerX <= WORLD_WIDTH - 50]_vars

C14_Witness ==
  /\ containerWidth = 800
  /\ gameState.isRunning
  /\ gameState.cameraX = XUnit * (WORLD_WIDTH - 800)

\* a left or right token is in HeldKeys
C15_MoveKeyHeld == HasLeft(keysPressed) \/ HasRight(keysPressed)

\* C15 as stated: after every animation-frame callback, focused or not,
\* isRunning implies that a left or right token is held at that callback.  A
\* callback that finds the view unfocused leaves the state as it is, so for
\* it the statement is one about every unfocused state.
C15_Original ==
  /\ [](~isFocused => (gameState.isRunning => C15_MoveKeyHeld))
  /\ [][gameState' # gameState => (gameState'.isRunning => C15_MoveKeyHeld)]_vars

\* C15 amended: after every executed (focused) step, isRunning implies that a
\* left or right token was held at that step; a callback that finds the view
\* unfocused leaves isRunning as it was.
C15_RunningDerived ==
  /\ [][gameState' # gameState => (gameState'.isRunning => C15_MoveKeyHeld)]_vars
  /\ [][~isFocused => gameState'.isRunning = gameState.isRunning]_vars

C15_Witness ==
  /\ isFocused
  /\ gameState.isJumping
  /\ gameState.isRunning
  /\ ~gameState.facingRight
  /\ HasLeft(keysPressed)

\* C16: a step in which neither a left nor a right token is held leaves
\* playerX and facingRight unchanged, whatever the jump key and the vertical
\* state are; facingRight changes only in a step with a horizontal key held.
C16_FacingPersists ==
  [][/\ (~HasLeft(keysPressed) /\ ~HasRight(keysPressed)) =>
          /\ gameState'.playerX = gameState.playerX
          /\ gameState'.facingRight = gameState.facingRight
     /\ gameState'.facingRight # gameState.facingRight =>
          /\ isFocused
          /\ HasLeft(keysPressed) \/ HasRight(keysPressed)]_vars

C16_Witness ==
  /\ isFocused
  /\ gameState.isJumping
  /\ ~gameState.facingRight
  /\ ~gameState.isRunning
  /\ HasJump(keysPressed)
  /\ ~HasLeft(keysPressed)

\* C17: while the view is mounted exactly one handler pair is registered,
\* whatever focus and blur events occurred; after unmount none is, and no key
\* event modifies HeldKeys.
C17_OneHandlerPair ==
  /\ [](mounted => Len(listeners) = 1)
  /\ [](~mounted => listeners = <<>>)
  /\ [][~mounted => keysPressed' = keysPressed]_vars
  /\ [][\A k \in AllKeys : KeyDown(k) =>
          keysPressed' \in {keysPressed, keysPressed \cup {toLowerCase(k)}}]_vars

C17_Witness ==
  /\ ~mounted
  /\ isFocused
  /\ keysPressed = {" "}
  /\ physDown = {"w"}

\* C18: in every reachable state playerY <= GROUND_Y; grounded means
\* playerY = GROUND_Y and velocityY = 0, airborne means playerY < GROUND_Y;
\* a step that starts a jump does not also end it.
C18_VerticalConsistent ==
  /\ [](/\ gameState.playerY <= 72 * YUnit
        /\ ~gameState.isJumping =>
             (gameState.playerY = 72 * YUnit /\ gameState.velocityY = 0)
        /\ gameState.isJumping => gameState.playerY < 72 * YUnit)
  /\ [][(~gameState.isJumping /\ HasJump(keysPressed) /\ gameState' # gameState)
          => gameState'.isJumping]_vars

C18_Witness ==
  /\ gameState.isJumping
  /\ gameState.velocityY = (0 - 20) * YUnit + 9
  /\ gameState.playerY = 72 * YUnit + (0 - 20) * YUnit + 9
  /\ gameState.isRunning

\* C19: after every executed step the player's on-screen position
\* playerX - cameraX lies inside the viewport of that step:
\* 0 <= playerX - cameraX <= viewportWidth.
C19_PlayerOnScreen ==
  containerWidth # 0 =>
    /\ XUnit * gameState.playerX - gameState.cameraX >= 0
    /\ XUnit * gameState.playerX - gameState.cameraX <= XUnit * containerWidth

C19_Witness ==
  /\ containerWidth = 300
  /\ gameState.isRunning
  /\ gameState.cameraX = XUnit * (WORLD_WIDTH - containerWidth)
  /\ gameState.playerX = WORLD_WIDTH - 50

====
